---- MODULE Spec2Model ----
(***************************************************************************)
(* Topology and connectivity engine of the corporate network simulator:   *)
(* NetworkUtils, Interface, Device (models) and NetworkSimulator           *)
(* (src/js/Simulator.js), with the configuration form of the UI that       *)
(* writes the addresses.                                                   *)
(*                                                                         *)
(* Strings that hold addresses are modelled as the sequence of their       *)
(* dot-separated tokens; a token is the integer parseInt reads from it,    *)
(* or EmptyTok for an empty token, or BadTok for a non-numeric one.        *)
(* 32-bit values are pairs <<hi, lo>> of 16-bit halves.                    *)
(***************************************************************************)
EXTENDS Integers, Sequences, FiniteSets, TLC

VARIABLES devices, nextId, timers

vars == <<devices, nextId, timers>>

\* ------------------------------------------------------------------ bounds
MaxDevices == 2
MaxTimers == 2
FairMaxDevices == 2
FairMaxTimers == 2
RouteMaxDevices == 2
RouteMaxTimers == 1

\* --------------------------------------------------------------- constants
Null == 0
NullName == "null"
EmptyTok == -1
BadTok == -2
EmptyStr == <<EmptyTok>>

RouterPorts ==
    << <<"FastEthernet0/0", "ethernet">>, <<"FastEthernet0/1", "ethernet">>,
       <<"Serial0/0/0", "serial">>, <<"Serial0/0/1", "serial">> >>

SwitchPorts ==
    << "FastEthernet0/1", "FastEthernet0/2", "FastEthernet0/3", "FastEthernet0/4",
       "FastEthernet0/5", "FastEthernet0/6", "FastEthernet0/7", "FastEthernet0/8",
       "FastEthernet0/9", "FastEthernet0/10", "FastEthernet0/11", "FastEthernet0/12",
       "FastEthernet0/13", "FastEthernet0/14", "FastEthernet0/15", "FastEthernet0/16",
       "FastEthernet0/17", "FastEthernet0/18", "FastEthernet0/19", "FastEthernet0/20",
       "FastEthernet0/21", "FastEthernet0/22", "FastEthernet0/23", "FastEthernet0/24" >>

\* ------------------------------------------------------------- data model
\* new Interface(name, type): no address, no peer; status is not set by the
\* constructor, so it reads as undefined until the first connect.
Interface(name, type) ==
    [name |-> name, type |-> type, ip |-> EmptyStr, mask |-> EmptyStr,
     connectedDeviceId |-> Null, connectedInterfaceName |-> NullName,
     status |-> "undefined"]

\* new Device(id, type, name, '', '', ''): the name is `${type}-${id}`,
\* kept as the pair it is formatted from.
Device(id, type) ==
    [id |-> id, type |-> type, name |-> <<type, id>>,
     ip |-> EmptyStr, mask |-> EmptyStr, gateway |-> EmptyStr,
     interfaces |-> <<>>, connections |-> <<>>]

DefaultInterfaces(type) ==
    IF type = "Router"
    THEN [k \in DOMAIN RouterPorts |-> Interface(RouterPorts[k][1], RouterPorts[k][2])]
    ELSE IF type = "Switch"
    THEN [k \in DOMAIN SwitchPorts |-> Interface(SwitchPorts[k], "ethernet")]
    ELSE << Interface("FastEthernet0", "ethernet") >>

\* Array.prototype.find over this.devices: the first device with that id.
HasDevice(devs, id) == \E k \in DOMAIN devs : devs[k].id = id

DevIdx(devs, id) ==
    CHOOSE k \in DOMAIN devs :
        devs[k].id = id /\ \A j \in 1..(k - 1) : devs[j].id # id

getDevice(devs, id) == devs[DevIdx(devs, id)]

HasInterface(d, name) == \E k \in DOMAIN d.interfaces : d.interfaces[k].name = name

IfIdx(d, name) ==
    CHOOSE k \in DOMAIN d.interfaces :
        d.interfaces[k].name = name /\ \A j \in 1..(k - 1) : d.interfaces[j].name # name

getInterface(d, name) == d.interfaces[IfIdx(d, name)]

Contains(seq, x) == \E k \in DOMAIN seq : seq[k] = x

\* Device.connect(deviceId)
DeviceConnect(d, deviceId) ==
    IF Contains(d.connections, deviceId) THEN d
    ELSE [d EXCEPT !.connections = Append(@, deviceId)]

\* Device.disconnect(deviceId): drops the id from the adjacency list and
\* clears connectedDeviceId (only) of every interface cabled to that device.
DeviceDisconnect(d, deviceId) ==
    [d EXCEPT
        !.connections = SelectSeq(@, LAMBDA x : x # deviceId),
        !.interfaces = [k \in DOMAIN @ |->
            IF @[k].connectedDeviceId = deviceId
            THEN [@[k] EXCEPT !.connectedDeviceId = Null]
            ELSE @[k]]]

\* One side of disconnectLink: if (d) { clear the named interface;
\* d.disconnect(otherId) }.
DisconnectSide(devs, id, ifaceName, otherId) ==
    IF ~HasDevice(devs, id) THEN devs
    ELSE LET di == DevIdx(devs, id)
             d == devs[di]
             cleared ==
                 IF HasInterface(d, ifaceName)
                 THEN [d EXCEPT
                         !.interfaces[IfIdx(d, ifaceName)].connectedDeviceId = Null,
                         !.interfaces[IfIdx(d, ifaceName)].connectedInterfaceName = NullName]
                 ELSE d
         IN [devs EXCEPT ![di] = DeviceDisconnect(cleared, otherId)]

\* NetworkSimulator.disconnectLink(id1, iface1Name, id2, iface2Name)
disconnectLink(devs, id1, iface1Name, id2, iface2Name) ==
    DisconnectSide(DisconnectSide(devs, id1, iface1Name, id2), id2, iface2Name, id1)

\* The forEach of removeDevice, interface k onwards: every interface is read
\* when its turn comes, after the earlier disconnects have been applied.
RECURSIVE RemoveLoop(_, _, _)
RemoveLoop(devs, id, k) ==
    LET d == getDevice(devs, id) IN
    IF k > Len(d.interfaces) THEN devs
    ELSE LET iface == d.interfaces[k] IN
         IF iface.connectedDeviceId # Null
         THEN RemoveLoop(disconnectLink(devs, id, iface.name,
                             iface.connectedDeviceId, iface.connectedInterfaceName),
                         id, k + 1)
         ELSE RemoveLoop(devs, id, k + 1)

\* NetworkSimulator.removeDevice(id)
removeDevice(devs, id) ==
    LET severed == IF HasDevice(devs, id) THEN RemoveLoop(devs, id, 1) ELSE devs
    IN SelectSeq(severed, LAMBDA d : d.id # id)

\* connectInterfaces without the test that the two interfaces are free.
CanConnectAnyInterface(devs, id1, ifName1, id2, ifName2) ==
    /\ HasDevice(devs, id1)
    /\ HasDevice(devs, id2)
    /\ HasInterface(getDevice(devs, id1), ifName1)
    /\ HasInterface(getDevice(devs, id2), ifName2)

\* The guards of connectInterfaces before its first assignment.
CanConnect(devs, id1, ifName1, id2, ifName2) ==
    /\ HasDevice(devs, id1)
    /\ HasDevice(devs, id2)
    /\ HasInterface(getDevice(devs, id1), ifName1)
    /\ HasInterface(getDevice(devs, id2), ifName2)
    /\ getInterface(getDevice(devs, id1), ifName1).connectedDeviceId = Null
    /\ getInterface(getDevice(devs, id2), ifName2).connectedDeviceId = Null

\* connectInterfaces without the assignment i2.status = 'down'.
connectInterfacesOneStatus(devs, id1, ifName1, id2, ifName2) ==
    LET di1 == DevIdx(devs, id1)
        ii1 == IfIdx(devs[di1], ifName1)
        s1 == [devs EXCEPT ![di1].interfaces[ii1] =
                  [@ EXCEPT !.connectedDeviceId = id2,
                            !.connectedInterfaceName = ifName2,
                            !.status = "down"]]
        di2 == DevIdx(s1, id2)
        ii2 == IfIdx(s1[di2], ifName2)
        s2 == [s1 EXCEPT ![di2].interfaces[ii2] =
                  [@ EXCEPT !.connectedDeviceId = id1,
                            !.connectedInterfaceName = ifName1]]
        s3 == [s2 EXCEPT ![di1] = DeviceConnect(@, id2)]
    IN [s3 EXCEPT ![di2] = DeviceConnect(@, id1)]

\* The assignments of connectInterfaces, in program order (i1 and i2, d1 and
\* d2 may be the same object).
connectInterfaces(devs, id1, ifName1, id2, ifName2) ==
    LET di1 == DevIdx(devs, id1)
        ii1 == IfIdx(devs[di1], ifName1)
        s1 == [devs EXCEPT ![di1].interfaces[ii1] =
                  [@ EXCEPT !.connectedDeviceId = id2,
                            !.connectedInterfaceName = ifName2,
                            !.status = "down"]]
        di2 == DevIdx(s1, id2)
        ii2 == IfIdx(s1[di2], ifName2)
        s2 == [s1 EXCEPT ![di2].interfaces[ii2] =
                  [@ EXCEPT !.connectedDeviceId = id1,
                            !.connectedInterfaceName = ifName1,
                            !.status = "down"]]
        s3 == [s2 EXCEPT ![di1] = DeviceConnect(@, id2)]
    IN [s3 EXCEPT ![di2] = DeviceConnect(@, id1)]

\* The callback of setTimeout: i1.status = 'up'; i2.status = 'up'.  The
\* callback holds the two Interface objects; an object whose device has been
\* removed is no longer part of the topology.
SetUp(devs, ref) ==
    IF HasDevice(devs, ref.dev) /\ HasInterface(getDevice(devs, ref.dev), ref.name)
    THEN LET di == DevIdx(devs, ref.dev)
         IN [devs EXCEPT ![di].interfaces[IfIdx(devs[di], ref.name)].status = "up"]
    ELSE devs

RECURSIVE linkUp(_, _)
linkUp(devs, t) ==
    IF t = {} THEN devs
    ELSE LET ref == CHOOSE r \in t : TRUE IN linkUp(SetUp(devs, ref), t \ {ref})

\* ------------------------------------------------------------ NetworkUtils
NaN == <<-1, -1>>

\* parseInt(octet, 10) of a token is NaN for an empty or non-numeric token
\* and the token's number otherwise.
ParsesToNaN(tok) == tok = EmptyTok \/ tok = BadTok

\* (acc << 8) + n for a number n: << takes ToInt32(acc), which is 0 for NaN,
\* and the sum is kept modulo 2^32, which is all that the next << or the
\* final >>> 0 reads of it.
ShiftAdd(acc, n) ==
    LET hi == IF acc = NaN THEN 0 ELSE ((acc[1] % 256) * 256) + (acc[2] \div 256)
        lo == IF acc = NaN THEN 0 ELSE (acc[2] % 256) * 256
        sum == lo + n
    IN << (hi + (sum \div 65536)) % 65536, sum % 65536 >>

RECURSIVE Reduce(_, _, _)
Reduce(tokens, k, acc) ==
    IF k > Len(tokens) THEN acc
    ELSE Reduce(tokens, k + 1,
                IF ParsesToNaN(tokens[k]) THEN NaN
                ELSE ShiftAdd(acc, tokens[k]))

\* NetworkUtils.ipToLong(ip): split('.'), reduce from 0, then >>> 0.
ipToLong(ip) ==
    LET acc == Reduce(ip, 1, <<0, 0>>)
    IN IF acc = NaN THEN <<0, 0>> ELSE acc

RECURSIVE And16(_, _, _)
And16(x, y, bits) ==
    IF bits = 0 THEN 0
    ELSE (x % 2) * (y % 2) + 2 * And16(x \div 2, y \div 2, bits - 1)

\* x & y of two four-bit values, tabulated from the bit-by-bit definition.
NibbleAnd == [i \in 0..255 |-> And16(i \div 16, i % 16, 4)]

\* x & y of two values of the given number of bits, four bits at a time.
RECURSIVE AndNibbles(_, _, _)
AndNibbles(x, y, bits) ==
    IF bits = 0 THEN 0
    ELSE NibbleAnd[(x % 16) * 16 + (y % 16)]
             + 16 * AndNibbles(x \div 16, y \div 16, bits - 4)

BitAnd(x, y) == << AndNibbles(x[1], y[1], 16), AndNibbles(x[2], y[2], 16) >>

\* NetworkUtils.isSameSubnet(ip1, ip2, mask)
isSameSubnet(ip1, ip2, mask) ==
    BitAnd(ipToLong(ip1), ipToLong(mask)) = BitAnd(ipToLong(ip2), ipToLong(mask))

\* The network address showRoutingTable prints, read through >> instead of
\* >>> for the first octet: the sign bit of the 32-bit value is carried.
netAddressSigned(netLong) ==
    << IF netLong[1] >= 32768 THEN (netLong[1] \div 256) - 256 ELSE netLong[1] \div 256,
       netLong[1] % 256, netLong[2] \div 256, netLong[2] % 256 >>

\* The inline formatter of showRoutingTable:
\* [(n >>> 24), (n >> 16 & 255), (n >> 8 & 255), (n & 255)].join('.')
netAddress(netLong) ==
    << netLong[1] \div 256, netLong[1] % 256, netLong[2] \div 256, netLong[2] % 256 >>

\* ---------------------------------------------------------- reachability
\* The for loop over device.connections of checkPhysicalPath, from index k:
\* st = [queue, visited].
RECURSIVE PushNeighbors(_, _, _)
PushNeighbors(conns, k, st) ==
    IF k > Len(conns) THEN st
    ELSE PushNeighbors(conns, k + 1,
            IF conns[k] \in st.visited THEN st
            ELSE [queue |-> Append(st.queue, conns[k]),
                  visited |-> st.visited \cup {conns[k]}])

\* The while loop of checkPhysicalPath.
RECURSIVE PhysicalLoop(_, _, _)
PhysicalLoop(devs, st, endId) ==
    IF st.queue = <<>> THEN FALSE
    ELSE LET curr == Head(st.queue)
             rest == [st EXCEPT !.queue = Tail(@)]
         IN IF curr = endId THEN TRUE
            ELSE IF HasDevice(devs, curr)
                 THEN PhysicalLoop(devs,
                         PushNeighbors(getDevice(devs, curr).connections, 1, rest),
                         endId)
                 ELSE PhysicalLoop(devs, rest, endId)

\* NetworkSimulator.checkPhysicalPath(startId, endId)
checkPhysicalPath(devs, startId, endId) ==
    PhysicalLoop(devs, [queue |-> <<startId>>, visited |-> {startId}], endId)

\* getPhysicalPath returns null when its queue runs empty.
NoPath == <<>>

\* The for loop of getPhysicalPath queueing the pair of the start device and
\* the neighbour instead of the extended path.
RECURSIVE PushPathsFromStart(_, _, _, _)
PushPathsFromStart(conns, k, path, st) ==
    IF k > Len(conns) THEN st
    ELSE PushPathsFromStart(conns, k + 1, path,
            IF conns[k] \in st.visited THEN st
            ELSE [queue |-> Append(st.queue, <<path[1], conns[k]>>),
                  visited |-> st.visited \cup {conns[k]}])

\* The for loop over device.connections of getPhysicalPath, from index k:
\* st = [queue, visited], the queue holding paths.
RECURSIVE PushPaths(_, _, _, _)
PushPaths(conns, k, path, st) ==
    IF k > Len(conns) THEN st
    ELSE PushPaths(conns, k + 1, path,
            IF conns[k] \in st.visited THEN st
            ELSE [queue |-> Append(st.queue, Append(path, conns[k])),
                  visited |-> st.visited \cup {conns[k]}])

\* The while loop of getPhysicalPath.
RECURSIVE PhysicalPathLoop(_, _, _)
PhysicalPathLoop(devs, st, endId) ==
    IF st.queue = <<>> THEN NoPath
    ELSE LET path == Head(st.queue)
             curr == path[Len(path)]
             rest == [st EXCEPT !.queue = Tail(@)]
         IN IF curr = endId THEN path
            ELSE IF HasDevice(devs, curr)
                 THEN PhysicalPathLoop(devs,
                         PushPaths(getDevice(devs, curr).connections, 1, path, rest),
                         endId)
                 ELSE PhysicalPathLoop(devs, rest, endId)

\* UI.getPhysicalPath(startId, endId)
getPhysicalPath(devs, startId, endId) ==
    PhysicalPathLoop(devs, [queue |-> << <<startId>> >>, visited |-> {startId}], endId)

\* interfaces.map(i => i.ip).filter(ip => ip)
InterfaceIPs(d) ==
    LET ips == [k \in DOMAIN d.interfaces |-> d.interfaces[k].ip]
    IN SelectSeq(ips, LAMBDA ip : ip # EmptyStr)

\* The first test of the BFS loops: some addressed interface of the current
\* router is in the subnet of some non-empty target address.
DirectlyConnected(current, targetIPs) ==
    \E k \in DOMAIN current.interfaces :
        LET iface == current.interfaces[k] IN
        /\ iface.ip # EmptyStr
        /\ iface.mask # EmptyStr
        /\ \E j \in DOMAIN targetIPs :
               /\ targetIPs[j] # EmptyStr
               /\ isSameSubnet(iface.ip, targetIPs[j], iface.mask)

\* The hop condition without the subnet test of the two interface
\* addresses.
ValidHopAnyCable(devs, iface, visited) ==
    /\ iface.connectedDeviceId # Null
    /\ HasDevice(devs, iface.connectedDeviceId)
    /\ LET neighbor == getDevice(devs, iface.connectedDeviceId) IN
       /\ neighbor.type = "Router"
       /\ neighbor.id \notin visited
       /\ HasInterface(neighbor, iface.connectedInterfaceName)

\* The hop condition with the link state of the interface added to it.
ValidHopLinkUp(devs, iface, visited) ==
    /\ iface.connectedDeviceId # Null
    /\ iface.status = "up"
    /\ HasDevice(devs, iface.connectedDeviceId)
    /\ LET neighbor == getDevice(devs, iface.connectedDeviceId) IN
       /\ neighbor.type = "Router"
       /\ neighbor.id \notin visited
       /\ HasInterface(neighbor, iface.connectedInterfaceName)
       /\ LET neighborIface == getInterface(neighbor, iface.connectedInterfaceName) IN
          /\ neighborIface.ip # EmptyStr
          /\ iface.ip # EmptyStr
          /\ iface.mask # EmptyStr
          /\ isSameSubnet(iface.ip, neighborIface.ip, iface.mask)

\* The condition under which the BFS loops queue the neighbour behind
\* interface iface of the current router.
ValidHop(devs, iface, visited) ==
    /\ iface.connectedDeviceId # Null
    /\ HasDevice(devs, iface.connectedDeviceId)
    /\ LET neighbor == getDevice(devs, iface.connectedDeviceId) IN
       /\ neighbor.type = "Router"
       /\ neighbor.id \notin visited
       /\ HasInterface(neighbor, iface.connectedInterfaceName)
       /\ LET neighborIface == getInterface(neighbor, iface.connectedInterfaceName) IN
          /\ neighborIface.ip # EmptyStr
          /\ iface.ip # EmptyStr
          /\ iface.mask # EmptyStr
          /\ isSameSubnet(iface.ip, neighborIface.ip, iface.mask)

\* The "queue neighbours" loop, from interface k of the current router; the
\* queue holds the path to each queued router (findPathBFS reads only its
\* last element, getRoute returns it).
RECURSIVE QueueNeighbors(_, _, _, _, _)
QueueNeighbors(devs, current, path, k, st) ==
    IF k > Len(current.interfaces) THEN st
    ELSE LET iface == current.interfaces[k] IN
         QueueNeighbors(devs, current, path, k + 1,
            IF ValidHop(devs, iface, st.visited)
            THEN [queue |-> Append(st.queue, Append(path, iface.connectedDeviceId)),
                  visited |-> st.visited \cup {iface.connectedDeviceId}]
            ELSE st)

TargetIPs(target) ==
    IF target.type = "Router" THEN InterfaceIPs(target) ELSE <<target.ip>>

\* The while loop of findPathBFS.
RECURSIVE PathLoop(_, _, _)
PathLoop(devs, st, target) ==
    IF st.queue = <<>> THEN FALSE
    ELSE LET path == Head(st.queue)
             current == getDevice(devs, path[Len(path)])
             rest == [st EXCEPT !.queue = Tail(@)]
         IN IF DirectlyConnected(current, TargetIPs(target)) THEN TRUE
            ELSE PathLoop(devs, QueueNeighbors(devs, current, path, 1, rest), target)

\* The routers the while loop of findPathBFS takes from its queue, in order.
RECURSIVE PathVisits(_, _, _, _)
PathVisits(devs, st, target, seen) ==
    IF st.queue = <<>> THEN seen
    ELSE LET path == Head(st.queue)
             current == getDevice(devs, path[Len(path)])
             rest == [st EXCEPT !.queue = Tail(@)]
         IN IF DirectlyConnected(current, TargetIPs(target))
            THEN Append(seen, current.id)
            ELSE PathVisits(devs, QueueNeighbors(devs, current, path, 1, rest),
                            target, Append(seen, current.id))

\* NetworkSimulator.findPathBFS(startRouter, targetDevice)
findPathBFS(devs, startRouter, target) ==
    IF startRouter.id = target.id THEN TRUE
    ELSE PathLoop(devs, [queue |-> << <<startRouter.id>> >>,
                         visited |-> {startRouter.id}], target)

\* sMask of checkRoutingPath: the mask of the first interface of a router
\* that carries sip, or the mask of the host.
SourceMask(source, sip) ==
    IF source.type = "Router"
    THEN LET k == CHOOSE i \in DOMAIN source.interfaces :
                     /\ source.interfaces[i].ip = sip
                     /\ \A j \in 1..(i - 1) : source.interfaces[j].ip # sip
         IN source.interfaces[k].mask
    ELSE source.mask

\* this.devices.find(d => d.type === 'Router' && d.interfaces.some(i => i.ip === gateway))
IsGatewayRouter(d, gateway) ==
    d.type = "Router" /\ \E k \in DOMAIN d.interfaces : d.interfaces[k].ip = gateway

HasGatewayRouter(devs, gateway) == \E k \in DOMAIN devs : IsGatewayRouter(devs[k], gateway)

GatewayRouter(devs, gateway) ==
    devs[CHOOSE k \in DOMAIN devs :
            /\ IsGatewayRouter(devs[k], gateway)
            /\ \A j \in 1..(k - 1) : ~IsGatewayRouter(devs[j], gateway)]

\* checkRoutingPath without the direct-match loops.
checkRoutingPathNoDirect(devs, source, target) ==
    IF source.type = "Router" THEN findPathBFS(devs, source, target)
    ELSE IF source.gateway = EmptyStr THEN FALSE
    ELSE IF ~isSameSubnet(source.ip, source.gateway, source.mask) THEN FALSE
    ELSE IF ~HasGatewayRouter(devs, source.gateway) THEN FALSE
    ELSE findPathBFS(devs, GatewayRouter(devs, source.gateway), target)

\* NetworkSimulator.checkRoutingPath(source, target)
checkRoutingPath(devs, source, target) ==
    LET sourceIPs == IF source.type = "Router" THEN InterfaceIPs(source)
                     ELSE IF source.ip # EmptyStr THEN <<source.ip>> ELSE <<>>
        targetIPs == IF target.type = "Router" THEN InterfaceIPs(target)
                     ELSE IF target.ip # EmptyStr THEN <<target.ip>> ELSE <<>>
        direct == \E i \in DOMAIN sourceIPs :
                      /\ SourceMask(source, sourceIPs[i]) # EmptyStr
                      /\ \E j \in DOMAIN targetIPs :
                             isSameSubnet(sourceIPs[i], targetIPs[j],
                                          SourceMask(source, sourceIPs[i]))
    IN IF direct THEN TRUE
       ELSE IF source.type = "Router" THEN findPathBFS(devs, source, target)
       ELSE IF source.gateway = EmptyStr THEN FALSE
       ELSE IF ~isSameSubnet(source.ip, source.gateway, source.mask) THEN FALSE
       ELSE IF ~HasGatewayRouter(devs, source.gateway) THEN FALSE
       ELSE findPathBFS(devs, GatewayRouter(devs, source.gateway), target)

\* The tail of testConnectivity that leaves the initial result ("Tiempo de
\* espera agotado") in place when the routing fails with no gateway set.
RoutingResultTimeout(devs, source, target) ==
    IF checkRoutingPath(devs, source, target)
    THEN [success |-> TRUE, msg |-> "Reply"]
    ELSE IF /\ source.gateway # EmptyStr
            /\ ~isSameSubnet(source.ip, source.gateway, source.mask)
    THEN [success |-> FALSE, msg |-> "GatewayUnreachable"]
    ELSE IF source.gateway # EmptyStr
    THEN [success |-> FALSE, msg |-> "NetworkUnreachable"]
    ELSE [success |-> FALSE, msg |-> "Timeout"]

\* The tail of testConnectivity without the gateway test of its failure
\* branch.
RoutingResultNoGatewayTest(devs, source, target) ==
    IF checkRoutingPath(devs, source, target)
    THEN [success |-> TRUE, msg |-> "Reply"]
    ELSE [success |-> FALSE, msg |-> "NetworkUnreachable"]

\* The tail of testConnectivity, once the physical path exists and the
\* source has passed the address test.
RoutingResult(devs, source, target) ==
    IF checkRoutingPath(devs, source, target)
    THEN [success |-> TRUE, msg |-> "Reply"]
    ELSE IF /\ source.gateway # EmptyStr
            /\ ~isSameSubnet(source.ip, source.gateway, source.mask)
    THEN [success |-> FALSE, msg |-> "GatewayUnreachable"]
    ELSE [success |-> FALSE, msg |-> "NetworkUnreachable"]

\* The address test with the router exemption left out.
SourceAddressMissingAnyType(source) == source.ip = EmptyStr

\* !source.ip && source.type !== 'Router'
SourceAddressMissing(source) == source.ip = EmptyStr /\ source.type # "Router"

\* testConnectivity without the self-ping test.
testConnectivityNoSelfTest(devs, sourceId, targetId) ==
    IF ~HasDevice(devs, sourceId) \/ ~HasDevice(devs, targetId)
    THEN [success |-> FALSE, msg |-> "DeviceNotFound"]
    ELSE LET source == getDevice(devs, sourceId)
             target == getDevice(devs, targetId)
         IN IF ~checkPhysicalPath(devs, source.id, target.id)
            THEN [success |-> FALSE, msg |-> "NoPhysicalPath"]
            ELSE IF SourceAddressMissing(source)
            THEN [success |-> FALSE, msg |-> "MissingSourceAddress"]
            ELSE RoutingResult(devs, source, target)

\* testConnectivity with the address test ahead of the cabling test.
testConnectivityAddressFirst(devs, sourceId, targetId) ==
    IF ~HasDevice(devs, sourceId) \/ ~HasDevice(devs, targetId)
    THEN [success |-> FALSE, msg |-> "DeviceNotFound"]
    ELSE LET source == getDevice(devs, sourceId)
             target == getDevice(devs, targetId)
         IN IF source.id = target.id
            THEN [success |-> FALSE, msg |-> "SelfPingError"]
            ELSE IF SourceAddressMissing(source)
            THEN [success |-> FALSE, msg |-> "MissingSourceAddress"]
            ELSE IF ~checkPhysicalPath(devs, source.id, target.id)
            THEN [success |-> FALSE, msg |-> "NoPhysicalPath"]
            ELSE RoutingResult(devs, source, target)

\* NetworkSimulator.testConnectivity(sourceId, targetId); msg names the
\* message the code returns: "Dispositivo no encontrado" is DeviceNotFound,
\* "No se puede hacer ping a si mismo" SelfPingError, "No existe conexion
\* fisica" NoPhysicalPath, "Configuracion IP faltante en Origen"
\* MissingSourceAddress, "Gateway inalcanzable" GatewayUnreachable, "Red de
\* destino inalcanzable" NetworkUnreachable and "Respuesta desde" Reply.
testConnectivity(devs, sourceId, targetId) ==
    IF ~HasDevice(devs, sourceId) \/ ~HasDevice(devs, targetId)
    THEN [success |-> FALSE, msg |-> "DeviceNotFound"]
    ELSE LET source == getDevice(devs, sourceId)
             target == getDevice(devs, targetId)
         IN IF source.id = target.id
            THEN [success |-> FALSE, msg |-> "SelfPingError"]
            ELSE IF ~checkPhysicalPath(devs, source.id, target.id)
            THEN [success |-> FALSE, msg |-> "NoPhysicalPath"]
            ELSE IF SourceAddressMissing(source)
            THEN [success |-> FALSE, msg |-> "MissingSourceAddress"]
            ELSE RoutingResult(devs, source, target)

\* The while loop of getRoute: the route found, or NoRoute.
NoRoute == <<>>

RECURSIVE RouteLoop(_, _, _, _)
RouteLoop(devs, st, target, prefix) ==
    IF st.queue = <<>> THEN NoRoute
    ELSE LET path == Head(st.queue)
             current == getDevice(devs, path[Len(path)])
             rest == [st EXCEPT !.queue = Tail(@)]
         IN IF DirectlyConnected(current, TargetIPs(target))
            THEN IF target.id # current.id
                 THEN prefix \o path \o <<target.id>>
                 ELSE prefix \o path
            ELSE RouteLoop(devs, QueueNeighbors(devs, current, path, 1, rest),
                           target, prefix)

\* NetworkSimulator.getRoute(sourceId, targetId), as the ids of the devices of
\* the route.  prefix.slice(0, prefix.indexOf(path[0])) is empty for a router
\* source and [source] otherwise.
getRoute(devs, sourceId, targetId) ==
    IF ~HasDevice(devs, sourceId) \/ ~HasDevice(devs, targetId) THEN NoRoute
    ELSE LET source == getDevice(devs, sourceId)
             target == getDevice(devs, targetId)
         IN IF source.type = "Router"
            THEN RouteLoop(devs, [queue |-> << <<source.id>> >>,
                                  visited |-> {source.id}], target, <<>>)
            ELSE IF isSameSubnet(source.ip, target.ip, source.mask)
            THEN <<source.id, target.id>>
            ELSE IF source.gateway = EmptyStr THEN NoRoute
            ELSE IF ~HasGatewayRouter(devs, source.gateway) THEN NoRoute
            ELSE LET startRouter == GatewayRouter(devs, source.gateway)
                 IN RouteLoop(devs, [queue |-> << <<startRouter.id>> >>,
                                     visited |-> {startRouter.id}],
                              target, <<source.id>>)

\* ------------------------------------------------------------- UI.saveConfig
\* The form openConfigModal renders for device d: its name, one address and
\* one mask field per interface, and a gateway field unless d is a router or
\* a switch (gw is NoField then).
NoField == <<BadTok, BadTok>>

FormOf(d) ==
    [name |-> d.name,
     ifs |-> [k \in DOMAIN d.interfaces |->
                 [ip |-> d.interfaces[k].ip, mask |-> d.interfaces[k].mask]],
     gw |-> IF d.type # "Router" /\ d.type # "Switch" THEN d.gateway ELSE NoField]

\* The duplicate check of saveConfig: some entered address is the legacy
\* address or an interface address of another device.
DuplicateIP(devs, d, form) ==
    \E k \in DOMAIN form.ifs :
        /\ form.ifs[k].ip # EmptyStr
        /\ \E j \in DOMAIN devs :
               /\ devs[j].id # d.id
               /\ \/ devs[j].ip = form.ifs[k].ip
                  \/ \E i \in DOMAIN devs[j].interfaces :
                         devs[j].interfaces[i].ip = form.ifs[k].ip

\* UI.saveConfig() for the selected device id and the submitted form.
saveConfig(devs, id, form) ==
    LET di == DevIdx(devs, id)
        named == [devs[di] EXCEPT !.name = form.name]
        written == [named EXCEPT
                      !.interfaces = [k \in DOMAIN @ |->
                          [@[k] EXCEPT !.ip = form.ifs[k].ip, !.mask = form.ifs[k].mask]],
                      !.gateway = IF form.gw = NoField THEN @ ELSE form.gw]
        synced == IF Len(written.interfaces) > 0
                  THEN [written EXCEPT !.ip = written.interfaces[1].ip,
                                       !.mask = written.interfaces[1].mask]
                  ELSE written
    IN IF DuplicateIP(devs, devs[di], form)
       THEN [devs EXCEPT ![di] = named]
       ELSE [devs EXCEPT ![di] = synced]

\* ------------------------------------------- UI.saveProject / loadProject
\* JSON.stringify of an Interface: its own properties; status is a property
\* only once connectInterfaces has set it.
JsonInterface(i) ==
    IF i.status = "undefined"
    THEN [name |-> i.name, type |-> i.type, ip |-> i.ip, mask |-> i.mask,
          connectedDeviceId |-> i.connectedDeviceId,
          connectedInterfaceName |-> i.connectedInterfaceName]
    ELSE i

JsonDevice(d) ==
    [id |-> d.id, type |-> d.type, name |-> d.name, ip |-> d.ip, mask |-> d.mask,
     gateway |-> d.gateway,
     interfaces |-> [k \in DOMAIN d.interfaces |-> JsonInterface(d.interfaces[k])],
     connections |-> d.connections]

\* UI.saveProject(): the data written to the file.
saveProject(devs, nid) ==
    [devices |-> [k \in DOMAIN devs |-> JsonDevice(devs[k])], nextId |-> nid]

\* v || '' of the Device constructor.
OrEmpty(v) == IF v = EmptyStr THEN EmptyStr ELSE v

\* An interface object of the parsed file, as the simulator reads it: a
\* missing status reads as undefined.
ParsedInterface(j) ==
    [name |-> j.name, type |-> j.type, ip |-> j.ip, mask |-> j.mask,
     connectedDeviceId |-> j.connectedDeviceId,
     connectedInterfaceName |-> j.connectedInterfaceName,
     status |-> IF "status" \in DOMAIN j THEN j.status ELSE "undefined"]

\* new Device(d.id, d.type, d.name, d.ip, d.mask, d.gateway, d.x, d.y) with
\* the interfaces of the file and no adjacency list.
LoadedDeviceNoConnections(j) ==
    [Device(j.id, j.type) EXCEPT
        !.name = j.name,
        !.ip = OrEmpty(j.ip),
        !.mask = OrEmpty(j.mask),
        !.gateway = OrEmpty(j.gateway),
        !.interfaces = [k \in DOMAIN j.interfaces |-> ParsedInterface(j.interfaces[k])]]

\* new Device(d.id, d.type, d.name, d.ip, d.mask, d.gateway, d.x, d.y) with
\* the interfaces and the connections of the file.
LoadedDevice(j) ==
    [Device(j.id, j.type) EXCEPT
        !.name = j.name,
        !.ip = OrEmpty(j.ip),
        !.mask = OrEmpty(j.mask),
        !.gateway = OrEmpty(j.gateway),
        !.interfaces = [k \in DOMAIN j.interfaces |-> ParsedInterface(j.interfaces[k])],
        !.connections = j.connections]

\* loadProject that does not restore the adjacency lists.
loadProjectNoConnections(data) ==
    [devices |-> [k \in DOMAIN data.devices |-> LoadedDeviceNoConnections(data.devices[k])],
     nextId |-> IF data.nextId = 0 THEN 1 ELSE data.nextId]

\* UI.loadProject(event): the devices and nextId it leaves, from the parsed
\* data of the file.
loadProject(data) ==
    [devices |-> [k \in DOMAIN data.devices |-> LoadedDevice(data.devices[k])],
     nextId |-> IF data.nextId = 0 THEN 1 ELSE data.nextId]

\* ------------------------------------------------------------------ actions
Init ==
    /\ devices = <<>>
    /\ nextId = 1
    /\ timers = <<>>

AddDevice(type) ==
    /\ devices' = Append(devices, [Device(nextId, type) EXCEPT
                                     !.interfaces = DefaultInterfaces(type)])
    /\ nextId' = nextId + 1
    /\ UNCHANGED timers

RemoveDevice(id) ==
    /\ devices' = removeDevice(devices, id)
    /\ UNCHANGED <<nextId, timers>>

DisconnectLink(id1, iface1Name, id2, iface2Name) ==
    /\ devices' = disconnectLink(devices, id1, iface1Name, id2, iface2Name)
    /\ UNCHANGED <<nextId, timers>>

\* A call of connectInterfaces: what it returns, the devices it leaves and
\* the timers pending after it.  A scheduled timer is the set of Interface
\* objects its callback holds.
connectInterfacesCall(devs, pending, id1, ifName1, id2, ifName2) ==
    IF CanConnect(devs, id1, ifName1, id2, ifName2)
    THEN [ret |-> TRUE,
          devices |-> connectInterfaces(devs, id1, ifName1, id2, ifName2),
          timers |-> Append(pending, {[dev |-> id1, name |-> ifName1],
                                      [dev |-> id2, name |-> ifName2]})]
    ELSE [ret |-> FALSE, devices |-> devs, timers |-> pending]

ConnectInterfaces(id1, ifName1, id2, ifName2) ==
    LET call == connectInterfacesCall(devices, timers, id1, ifName1, id2, ifName2) IN
    /\ devices' = call.devices
    /\ timers' = call.timers
    /\ UNCHANGED nextId

\* Timers of equal delay run in the order they were scheduled.
FireTimer ==
    /\ timers # <<>>
    /\ devices' = linkUp(devices, Head(timers))
    /\ timers' = Tail(timers)
    /\ UNCHANGED nextId

\* The user loads a project file.  The devices become new objects, so a
\* callback scheduled before the load holds no interface of them.
LoadProject(data) ==
    /\ devices' = loadProject(data).devices
    /\ nextId' = loadProject(data).nextId
    /\ timers' = [k \in DOMAIN timers |-> {}]

\* The user opens the configuration form of an existing device, edits the
\* fields of interface idx (and the gateway field when the form has one) and
\* saves.
SaveConfig(id, idx, ip, mask, gw) ==
    /\ HasDevice(devices, id)
    /\ idx \in DOMAIN getDevice(devices, id).interfaces
    /\ LET shown == FormOf(getDevice(devices, id))
           form == [shown EXCEPT !.ifs[idx] = [ip |-> ip, mask |-> mask],
                                 !.gw = IF @ = NoField THEN @ ELSE gw]
       IN devices' = saveConfig(devices, id, form)
    /\ UNCHANGED <<nextId, timers>>

\* The form of device d after the user has typed a name, the fields of
\* interface idx and, when the form has one, the gateway field.
EditedForm(d, name, idx, ip, mask, gw) ==
    [FormOf(d) EXCEPT !.name = name,
                      !.ifs[idx] = [ip |-> ip, mask |-> mask],
                      !.gw = IF @ = NoField THEN @ ELSE gw]

\* The same save with the name field edited as well.
SaveConfigNamed(id, name, idx, ip, mask, gw) ==
    /\ HasDevice(devices, id)
    /\ idx \in DOMAIN getDevice(devices, id).interfaces
    /\ devices' = saveConfig(devices, id,
                      EditedForm(getDevice(devices, id), name, idx, ip, mask, gw))
    /\ UNCHANGED <<nextId, timers>>

\* ------------------------------------------------------------------ inputs
LinkTypes == {"PC"}
LinkNames == {"FastEthernet0", "FastEthernet0/0"}

LinkNext(maxDevices, maxTimers, Types, Names) ==
    \/ \E type \in Types : nextId <= maxDevices /\ AddDevice(type)
    \/ \E id \in 1..maxDevices : RemoveDevice(id)
    \/ \E id1, id2 \in 1..maxDevices : \E n1, n2 \in Names :
           DisconnectLink(id1, n1, id2, n2)
    \/ \E id1, id2 \in 1..maxDevices : \E n1, n2 \in Names :
           Len(timers) < maxTimers /\ ConnectInterfaces(id1, n1, id2, n2)
    \/ FireTimer

Next == LinkNext(MaxDevices, MaxTimers, LinkTypes, LinkNames)

Spec == Init /\ [][Next]_vars

\* The simulator as the UI drives it: devices are added and removed, ports
\* are cabled, timers fire and configuration forms are saved.
RouteTypes == {"PC", "Router"}
RouteNames == {"FastEthernet0", "FastEthernet0/0"}
AddrA1 == <<10, 0, 0, 1>>
AddrA2 == <<10, 0, 0, 2>>
AddrB1 == <<10, 0, 1, 1>>
Mask24 == <<255, 255, 255, 0>>
ConfigIfaces == {1}
IfaceInputs == {<<EmptyStr, EmptyStr>>, <<AddrA1, Mask24>>, <<AddrA2, Mask24>>,
                <<AddrB1, Mask24>>}
GatewayInputs == {EmptyStr, AddrA1}

RouteNext(maxDevices, maxTimers, Types, Names) ==
    \/ \E type \in Types : nextId <= maxDevices /\ AddDevice(type)
    \/ \E id \in 1..maxDevices : RemoveDevice(id)
    \/ \E id1, id2 \in 1..maxDevices : \E n1, n2 \in Names :
           Len(timers) < maxTimers /\ ConnectInterfaces(id1, n1, id2, n2)
    \/ FireTimer
    \/ \E id \in 1..maxDevices : \E idx \in ConfigIfaces :
           \E a \in IfaceInputs : \E gw \in GatewayInputs :
               SaveConfig(id, idx, a[1], a[2], gw)

NextRoute == RouteNext(RouteMaxDevices, RouteMaxTimers, RouteTypes, RouteNames)

SpecRoute == Init /\ [][NextRoute]_vars

\* The same calls, with disconnectLink given an interface and the peer it
\* records (the arguments removeDevice passes), under the event loop, which
\* runs every scheduled callback.
PeerNext(maxDevices, maxTimers, Types, Names) ==
    \/ \E type \in Types : nextId <= maxDevices /\ AddDevice(type)
    \/ \E id \in 1..maxDevices : RemoveDevice(id)
    \/ \E id \in 1..maxDevices : \E n \in Names :
           /\ HasDevice(devices, id)
           /\ HasInterface(getDevice(devices, id), n)
           /\ getInterface(getDevice(devices, id), n).connectedDeviceId # Null
           /\ DisconnectLink(id, n,
                  getInterface(getDevice(devices, id), n).connectedDeviceId,
                  getInterface(getDevice(devices, id), n).connectedInterfaceName)
    \/ \E id1, id2 \in 1..maxDevices : \E n1, n2 \in Names :
           Len(timers) < maxTimers /\ ConnectInterfaces(id1, n1, id2, n2)
    \/ FireTimer

FairTypes == {"PC"}
FairNames == {"FastEthernet0", "FastEthernet0/0"}
NextFair == PeerNext(FairMaxDevices, FairMaxTimers, FairTypes, FairNames)

FairSpec == Init /\ [][NextFair]_vars /\ WF_vars(FireTimer)

\* The simulator building a routed network: the devices with an id in HopRouterIds
\* are added as routers and the others as hosts, a cable is drawn from a router
\* to a device added after it once the previous link has settled, and the
\* forms are filled from an address plan in which interface idx of device id
\* is 10.0.n.id/24 with n the parity of id + idx; a form is saved cleared, or
\* with its planned address and a gateway.
HopMaxDevices == 3
HopRouterIds == {1, 2}
HopNames == {"FastEthernet0", "FastEthernet0/0", "FastEthernet0/1"}
HopIfaces == {1, 2}
HopGateways == {EmptyStr, AddrA1}
HopKind(id) == IF id \in HopRouterIds THEN "Router" ELSE "PC"
HopAddress(id, idx) == <<10, 0, (id + idx) % 2, id>>
HopForms(id, idx) ==
    {<<EmptyStr, EmptyStr, EmptyStr>>} \cup
    {<<HopAddress(id, idx), Mask24, gw>> : gw \in HopGateways}

HopNext(maxDevices) ==
    \/ nextId <= maxDevices /\ AddDevice(HopKind(nextId))
    \/ \E id1, id2 \in 1..maxDevices : \E n1, n2 \in HopNames :
           /\ id1 \in HopRouterIds
           /\ id1 < id2
           /\ timers = <<>>
           /\ ConnectInterfaces(id1, n1, id2, n2)
    \/ FireTimer
    \/ \E id \in 1..maxDevices : \E idx \in HopIfaces :
           \E f \in HopForms(id, idx) : SaveConfig(id, idx, f[1], f[2], f[3])

NextHop == HopNext(HopMaxDevices)

SpecHop == Init /\ [][NextHop]_vars

\* The simulator with its project file: devices are added and removed, ports
\* are cabled, timers fire, forms are saved, and the user saves the project
\* and loads the file just saved.
ProjectMaxDevices == 2
ProjectMaxTimers == 1
ProjectTypes == {"PC", "Router"}
ProjectNames == {"FastEthernet0", "FastEthernet0/0"}
ProjectInputs == {<<EmptyStr, EmptyStr>>, <<AddrA1, Mask24>>, <<AddrA2, Mask24>>}

ProjectNext(maxDevices, maxTimers) ==
    \/ \E type \in ProjectTypes : nextId <= maxDevices /\ AddDevice(type)
    \/ \E id \in 1..maxDevices : RemoveDevice(id)
    \/ \E id1, id2 \in 1..maxDevices : \E n1, n2 \in ProjectNames :
           Len(timers) < maxTimers /\ ConnectInterfaces(id1, n1, id2, n2)
    \/ FireTimer
    \/ \E id \in 1..maxDevices : \E a \in ProjectInputs : \E gw \in GatewayInputs :
           SaveConfig(id, 1, a[1], a[2], gw)
    \/ \E data \in {saveProject(devices, nextId)} : LoadProject(data)

NextProject == ProjectNext(ProjectMaxDevices, ProjectMaxTimers)

SpecProject == Init /\ [][NextProject]_vars

\* The simulator being configured: the devices with an id in
\* AddressSwitchIds are switches and the others hosts; the form of a device
\* is saved with its name kept or edited and the first interface given an
\* address typed by the user, well formed or not.
AddressMaxDevices == 2
AddressSwitchIds == {2}
AddressKind(id) == IF id \in AddressSwitchIds THEN "Switch" ELSE "PC"
EditedName == <<"Core", 0>>
ValidAddresses ==
    {<<a, t[1], t[2], t[3]>> : a \in {0, 127, 128, 255},
                               t \in {<<255, 255, 255>>, <<1, 2, 3>>}}
MalformedAddresses ==
    {<<10, 0, 0>>, <<10, 0, 0, 1, 1>>, <<10, 0, EmptyTok, 1>>,
     <<10, 0, 0, BadTok>>, <<10, 0, 0, 256>>}
AddressInputs ==
    {<<EmptyStr, EmptyStr>>} \cup
    {<<a, Mask24>> : a \in ValidAddresses \cup MalformedAddresses}

AddressNext(maxDevices) ==
    \/ nextId <= maxDevices /\ AddDevice(AddressKind(nextId))
    \/ \E id \in 1..maxDevices : \E a \in AddressInputs :
           /\ HasDevice(devices, id)
           /\ \E name \in {getDevice(devices, id).name, EditedName} :
                  SaveConfigNamed(id, name, 1, a[1], a[2], EmptyStr)

NextAddress == AddressNext(AddressMaxDevices)

SpecAddress == Init /\ [][NextAddress]_vars

\* The simulator cabling a small network: the devices with an id in
\* GraphRouterIds are added as routers and the others as hosts; once the links
\* have settled the user draws a cable from a device to one added after it,
\* removes the cable of a connected interface, or deletes a device.
GraphMaxDevices == 3
GraphRouterIds == {1, 2, 3}
GraphNames == {"FastEthernet0", "FastEthernet0/0", "FastEthernet0/1"}
GraphKind(id) == IF id \in GraphRouterIds THEN "Router" ELSE "PC"

GraphNext(maxDevices) ==
    \/ nextId <= maxDevices /\ AddDevice(GraphKind(nextId))
    \/ \E id \in 1..maxDevices : timers = <<>> /\ RemoveDevice(id)
    \/ \E id \in 1..maxDevices : \E n \in GraphNames :
           /\ timers = <<>>
           /\ HasDevice(devices, id)
           /\ HasInterface(getDevice(devices, id), n)
           /\ getInterface(getDevice(devices, id), n).connectedDeviceId # Null
           /\ DisconnectLink(id, n,
                  getInterface(getDevice(devices, id), n).connectedDeviceId,
                  getInterface(getDevice(devices, id), n).connectedInterfaceName)
    \/ \E id1, id2 \in 1..maxDevices : \E n1, n2 \in GraphNames :
           timers = <<>> /\ id1 < id2 /\ ConnectInterfaces(id1, n1, id2, n2)
    \/ FireTimer

NextGraph == GraphNext(GraphMaxDevices)

SpecGraph == Init /\ [][NextGraph]_vars

\* Two routers cabled and uncabled again on their Ethernet ports, without
\* waiting for the links to settle.
ReconnectMaxDevices == 2
ReconnectMaxTimers == 2
ReconnectTypes == {"Router"}
ReconnectNames == {"FastEthernet0/0", "FastEthernet0/1"}

NextReconnect ==
    PeerNext(ReconnectMaxDevices, ReconnectMaxTimers, ReconnectTypes, ReconnectNames)

SpecReconnect == Init /\ [][NextReconnect]_vars

\* ------------------------------------------------------- claim vocabulary
Ids == 1..MaxDevices
Refs == {[dev |-> d, name |-> n] : d \in Ids, n \in LinkNames}
FairRefs == {[dev |-> d, name |-> n] : d \in 1..FairMaxDevices, n \in FairNames}

Exists(devs, r) == HasDevice(devs, r.dev) /\ HasInterface(getDevice(devs, r.dev), r.name)
IfaceAt(devs, r) == getInterface(getDevice(devs, r.dev), r.name)
Linked(devs, r) == Exists(devs, r) /\ IfaceAt(devs, r).connectedDeviceId # Null
StatusIs(devs, r, st) == Exists(devs, r) /\ IfaceAt(devs, r).status = st

\* ---------------------------------------------------------------- C1
\* C1: peer references are symmetric in every state reachable by addDevice,
\* connectInterfaces, disconnectLink and removeDevice: an interface with a
\* peer (device 2, interface B) finds device 2 and interface B, whose peer
\* points back to it.
PeerSymmetric(devs) ==
    \A k \in DOMAIN devs : \A j \in DOMAIN devs[k].interfaces :
        LET a == devs[k].interfaces[j] IN
        a.connectedDeviceId # Null =>
            /\ HasDevice(devs, a.connectedDeviceId)
            /\ HasInterface(getDevice(devs, a.connectedDeviceId), a.connectedInterfaceName)
            /\ LET b == getInterface(getDevice(devs, a.connectedDeviceId),
                                     a.connectedInterfaceName)
               IN b.connectedDeviceId = devs[k].id /\ b.connectedInterfaceName = a.name

C1_PeerSymmetry == PeerSymmetric(devices)

\* ---------------------------------------------------------------- C3
\* C3: a connect that names a missing device or interface, or an interface
\* that already has a peer, returns false, leaves the devices as they are
\* and schedules no timer.
BadConnect(devs, id1, ifName1, id2, ifName2) ==
    \/ ~HasDevice(devs, id1)
    \/ ~HasDevice(devs, id2)
    \/ ~Exists(devs, [dev |-> id1, name |-> ifName1])
    \/ ~Exists(devs, [dev |-> id2, name |-> ifName2])
    \/ Linked(devs, [dev |-> id1, name |-> ifName1])
    \/ Linked(devs, [dev |-> id2, name |-> ifName2])

ConnectRefs == {[dev |-> d, name |-> n] : d \in 1..RouteMaxDevices, n \in RouteNames}

C3_ConnectRejects ==
    \A id1, id2 \in 1..RouteMaxDevices : \A n1, n2 \in RouteNames :
        BadConnect(devices, id1, n1, id2, n2) =>
            connectInterfacesCall(devices, timers, id1, n1, id2, n2)
                = [ret |-> FALSE, devices |-> devices, timers |-> timers]

\* A state in which a connect names a cabled interface of an existing device
\* and a free interface of another one.
C3_Witness ==
    \E r1, r2 \in ConnectRefs :
        /\ r1.dev # r2.dev
        /\ Linked(devices, r1)
        /\ Exists(devices, r2) /\ ~Linked(devices, r2)
        /\ ~connectInterfacesCall(devices, timers, r1.dev, r1.name, r2.dev, r2.name).ret

\* ---------------------------------------------------------------- C4
\* C4: after removeDevice(id) the device is gone, no surviving interface has
\* its peer on id, no surviving adjacency list contains id and the peers of
\* the survivors are symmetric; removing an id that names no device changes
\* nothing.
Removed(devs, id) ==
    /\ ~HasDevice(devs, id)
    /\ \A k \in DOMAIN devs :
           /\ ~Contains(devs[k].connections, id)
           /\ \A j \in DOMAIN devs[k].interfaces :
                  devs[k].interfaces[j].connectedDeviceId # id
    /\ PeerSymmetric(devs)

Stale(devs, t) == \E r \in t : ~Linked(devs, r)

C5_StaleTimerSuppressed ==
    [][(FireTimer /\ Stale(devices, Head(timers))) => devices' = devices]_vars

\* ---------------------------------------------------------------- C6
\* C6: a successful connect leaves both interfaces Down in the same step; a
\* cabled interface that is Down becomes Up unless its link is torn down;
\* and an interface that is Up stays Up while its link exists.
C6_ConnectSetsDown ==
    Len(timers') > Len(timers) =>
        \A r \in timers'[Len(timers')] :
            Linked(devices', r) /\ StatusIs(devices', r, "down")

C6_StaysUp ==
    \A r \in FairRefs :
        (Linked(devices, r) /\ StatusIs(devices, r, "up") /\ Linked(devices', r))
            => StatusIs(devices', r, "up")

C6_LinkSettles ==
    /\ [][C6_ConnectSetsDown]_vars
    /\ [][C6_StaysUp]_vars
    /\ \A r \in FairRefs :
           (Linked(devices, r) /\ StatusIs(devices, r, "down"))
               ~> (~Linked(devices, r) \/ StatusIs(devices, r, "up"))

\* A link whose two ends are Up after having been connected.
C6_Witness ==
    \E r1, r2 \in FairRefs :
        /\ r1.dev # r2.dev
        /\ Linked(devices, r1) /\ IfaceAt(devices, r1).connectedDeviceId = r2.dev
        /\ Linked(devices, r2) /\ IfaceAt(devices, r2).connectedDeviceId = r1.dev
        /\ StatusIs(devices, r1, "up") /\ StatusIs(devices, r2, "up")

\* ---------------------------------------------------------------- C7
\* C7: after a reconnect the new link stays Down until the timer scheduled by
\* the latest connect fires: the firing of an earlier timer, with a later
\* timer for the same interface still pending, leaves that interface Down.
LaterTimer(r) == \E k \in 2..Len(timers) : r \in timers[k]

C7_ReconnectRestarts ==
    [][FireTimer =>
          \A r \in Head(timers) :
              (LaterTimer(r) /\ Linked(devices, r) /\ StatusIs(devices, r, "down"))
                  => StatusIs(devices', r, "down")]_vars

\* ------------------------------------------------- routing vocabulary
RouteIds == 1..RouteMaxDevices

\* The devices a device's adjacency list names.
Adjacent(devs, id) ==
    IF HasDevice(devs, id)
    THEN {getDevice(devs, id).connections[k] : k \in DOMAIN getDevice(devs, id).connections}
    ELSE {}

RECURSIVE Closure(_, _)
Closure(devs, S) ==
    LET N == S \cup UNION {Adjacent(devs, x) : x \in S}
    IN IF N = S THEN S ELSE Closure(devs, N)

\* There is a path from s to t in the device-adjacency graph.
PathExists(devs, s, t) == t \in Closure(devs, {s})

\* ---------------------------------------------------------------- C2
\* C2: for every ordered pair of device ids, testConnectivity reports
\* success exactly when getRoute returns a route.
C2_RouteAgreesWithPing ==
    \A s, t \in RouteIds :
        testConnectivity(devices, s, t).success <=> (getRoute(devices, s, t) # NoRoute)

\* ---------------------------------------------------------------- C8
\* C8: testConnectivity(d, d) of an existing device fails with SelfPingError,
\* whatever the cabling and the addresses.
C8_SelfPing ==
    \A d \in RouteIds :
        HasDevice(devices, d) =>
            testConnectivity(devices, d, d) = [success |-> FALSE, msg |-> "SelfPingError"]

\* A cabled device with an address and a mask, pinging itself.
C8_Witness ==
    \E d \in RouteIds :
        /\ HasDevice(devices, d)
        /\ getDevice(devices, d).ip # EmptyStr
        /\ getDevice(devices, d).mask # EmptyStr
        /\ getDevice(devices, d).connections # <<>>
        /\ testConnectivity(devices, d, d).msg = "SelfPingError"

\* ---------------------------------------------------------------- C9
\* C9: two distinct existing devices with no path between them in the
\* device-adjacency graph (the connections lists) get NoPhysicalPath, whatever
\* the addresses, masks and gateways.
C9_NoPhysicalPath ==
    \A s, t \in RouteIds :
        (/\ s # t
         /\ HasDevice(devices, s)
         /\ HasDevice(devices, t)
         /\ ~PathExists(devices, s, t))
            => testConnectivity(devices, s, t) = [success |-> FALSE, msg |-> "NoPhysicalPath"]

\* Two uncabled hosts with addresses of the same subnet.
C9_Witness ==
    \E s, t \in RouteIds :
        /\ s # t /\ HasDevice(devices, s) /\ HasDevice(devices, t)
        /\ ~PathExists(devices, s, t)
        /\ getDevice(devices, s).ip # EmptyStr
        /\ getDevice(devices, s).mask # EmptyStr
        /\ getDevice(devices, t).ip # EmptyStr
        /\ isSameSubnet(getDevice(devices, s).ip, getDevice(devices, t).ip,
                        getDevice(devices, s).mask)
        /\ testConnectivity(devices, s, t).msg = "NoPhysicalPath"

\* ---------------------------------------------------------------- C10
\* C10: between distinct, physically connected devices, a source that is not
\* a router and has no address gets MissingSourceAddress, and a router source
\* never does.
C10_MissingSourceAddress ==
    \A s, t \in RouteIds :
        (/\ s # t
         /\ HasDevice(devices, s)
         /\ HasDevice(devices, t)
         /\ PathExists(devices, s, t))
            => LET source == getDevice(devices, s)
                   msg == testConnectivity(devices, s, t).msg
               IN /\ (source.type # "Router" /\ source.ip = EmptyStr)
                        => msg = "MissingSourceAddress"
                  /\ source.type = "Router" => msg # "MissingSourceAddress"

\* A cabled host without an address pinging, and a cabled router without any
\* address pinging.
C10_Witness ==
    /\ \E s, t \in RouteIds :
           /\ s # t /\ HasDevice(devices, s) /\ HasDevice(devices, t)
           /\ PathExists(devices, s, t)
           /\ getDevice(devices, s).type # "Router"
           /\ getDevice(devices, s).ip = EmptyStr
           /\ testConnectivity(devices, s, t).msg = "MissingSourceAddress"
    /\ \E s, t \in RouteIds :
           /\ s # t /\ HasDevice(devices, s) /\ HasDevice(devices, t)
           /\ PathExists(devices, s, t)
           /\ getDevice(devices, s).type = "Router"
           /\ getDevice(devices, s).ip = EmptyStr


\* ------------------------------------------- address-check vocabulary
\* The configured addresses of a device as a source, each with the mask of
\* its side: every addressed interface of a router, the single address of a
\* host.
SourceAddresses(d) ==
    IF d.type = "Router"
    THEN {<<d.interfaces[k].ip, d.interfaces[k].mask>> :
              k \in {j \in DOMAIN d.interfaces : d.interfaces[j].ip # EmptyStr}}
    ELSE IF d.ip # EmptyStr THEN {<<d.ip, d.mask>>} ELSE {}

\* The configured addresses of a device as a target.
TargetAddresses(d) == {a[1] : a \in SourceAddresses(d)}

\* Some configured source address is in the subnet of some configured target
\* address under the mask of the source side.
DirectMatch(source, target) ==
    \E a \in SourceAddresses(source) : \E b \in TargetAddresses(target) :
        a[2] # EmptyStr /\ isSameSubnet(a[1], b, a[2])

\* The device, self-ping and cabling checks pass for the pair (s, t).
Cabled(devs, s, t) ==
    /\ s # t
    /\ HasDevice(devs, s)
    /\ HasDevice(devs, t)
    /\ PathExists(devs, s, t)

\* The address checks pass: the source is a router or has an address, and so
\* has the target.
Addressed(source, target) ==
    /\ (source.type = "Router" \/ source.ip # EmptyStr)
    /\ (target.type = "Router" \/ target.ip # EmptyStr)

\* ---------------------------------------------------------------- C11
\* C11: between distinct, physically connected devices whose source is a
\* router or has an address, a target that is not a router and has no address
\* gets MissingTargetAddress.
C11_MissingTargetAddress ==
    \A s, t \in RouteIds :
        (/\ Cabled(devices, s, t)
         /\ ~SourceAddressMissing(getDevice(devices, s))
         /\ getDevice(devices, t).type # "Router"
         /\ getDevice(devices, t).ip = EmptyStr)
            => testConnectivity(devices, s, t)
                   = [success |-> FALSE, msg |-> "MissingTargetAddress"]

\* ---------------------------------------------------------------- C12
\* C12: a source that is not a router, passes the cabling and address checks
\* and has no direct match with the target gets GatewayUnreachable when its
\* gateway is set and outside its subnet under its mask, and
\* NetworkUnreachable when its gateway is empty.
C12_GatewayClassification ==
    \A s, t \in RouteIds :
        Cabled(devices, s, t) =>
            LET source == getDevice(devices, s)
                target == getDevice(devices, t)
                result == testConnectivity(devices, s, t)
            IN (/\ source.type # "Router"
                /\ Addressed(source, target)
                /\ ~DirectMatch(source, target))
                   => /\ (/\ source.gateway # EmptyStr
                          /\ ~isSameSubnet(source.ip, source.gateway, source.mask))
                             => result = [success |-> FALSE, msg |-> "GatewayUnreachable"]
                      /\ source.gateway = EmptyStr
                             => result = [success |-> FALSE, msg |-> "NetworkUnreachable"]

\* Two cabled hosts of different subnets: one with a gateway outside its
\* subnet, the other with no gateway.
C12_Witness ==
    \E s, t \in RouteIds :
        /\ Cabled(devices, s, t)
        /\ getDevice(devices, s).type # "Router"
        /\ getDevice(devices, t).type # "Router"
        /\ Addressed(getDevice(devices, s), getDevice(devices, t))
        /\ ~DirectMatch(getDevice(devices, s), getDevice(devices, t))
        /\ ~DirectMatch(getDevice(devices, t), getDevice(devices, s))
        /\ getDevice(devices, s).gateway # EmptyStr
        /\ getDevice(devices, t).gateway = EmptyStr
        /\ testConnectivity(devices, s, t).msg = "GatewayUnreachable"
        /\ testConnectivity(devices, t, s).msg = "NetworkUnreachable"

\* ---------------------------------------------------------------- C13
\* C13: a source that is not a router, passes the checks and has no direct
\* match gets GatewayUnreachable when its gateway is in its own subnet and is
\* the address of no interface of any router.
C13_GatewayNotFound ==
    \A s, t \in RouteIds :
        Cabled(devices, s, t) =>
            LET source == getDevice(devices, s)
                target == getDevice(devices, t)
            IN (/\ source.type # "Router"
                /\ Addressed(source, target)
                /\ ~DirectMatch(source, target)
                /\ source.gateway # EmptyStr
                /\ isSameSubnet(source.ip, source.gateway, source.mask)
                /\ ~HasGatewayRouter(devices, source.gateway))
                   => testConnectivity(devices, s, t)
                          = [success |-> FALSE, msg |-> "GatewayUnreachable"]

\* ---------------------------------------------------------------- C14
\* C14: when the device, self-ping, cabling and address checks pass and
\* there is a direct match, testConnectivity succeeds, whatever the gateway
\* and the routers of the topology.
C14_DirectMatchSucceeds ==
    \A s, t \in RouteIds :
        (/\ Cabled(devices, s, t)
         /\ Addressed(getDevice(devices, s), getDevice(devices, t))
         /\ DirectMatch(getDevice(devices, s), getDevice(devices, t)))
            => testConnectivity(devices, s, t) = [success |-> TRUE, msg |-> "Reply"]

\* Two cabled hosts of one subnet, the source with a gateway that no router
\* owns, and the ping succeeds.
C14_Witness ==
    \E s, t \in RouteIds :
        /\ Cabled(devices, s, t)
        /\ getDevice(devices, s).type # "Router"
        /\ DirectMatch(getDevice(devices, s), getDevice(devices, t))
        /\ getDevice(devices, s).gateway # EmptyStr
        /\ ~HasGatewayRouter(devices, getDevice(devices, s).gateway)
        /\ testConnectivity(devices, s, t).success


\* ------------------------------------------------- multi-hop vocabulary
HopIds == 1..HopMaxDevices

IsRouter(devs, id) == HasDevice(devs, id) /\ getDevice(devs, id).type = "Router"

\* A cable joins routers a and b and its two end interfaces carry addresses
\* of one subnet, under the mask of a's end.
L3Hop(devs, a, b) ==
    /\ IsRouter(devs, a)
    /\ IsRouter(devs, b)
    /\ \E k \in DOMAIN getDevice(devs, a).interfaces :
           LET iface == getDevice(devs, a).interfaces[k] IN
           /\ iface.connectedDeviceId = b
           /\ HasInterface(getDevice(devs, b), iface.connectedInterfaceName)
           /\ iface.ip # EmptyStr
           /\ iface.mask # EmptyStr
           /\ getInterface(getDevice(devs, b), iface.connectedInterfaceName).ip # EmptyStr
           /\ isSameSubnet(iface.ip,
                           getInterface(getDevice(devs, b), iface.connectedInterfaceName).ip,
                           iface.mask)

\* The routers reachable from the routers of S through chains of valid hops.
RECURSIVE L3Reach(_, _)
L3Reach(devs, S) ==
    LET N == S \cup {devs[k].id : k \in {j \in DOMAIN devs :
                                            \E a \in S : L3Hop(devs, a, devs[j].id)}}
    IN IF N = S THEN S ELSE L3Reach(devs, N)

\* The start routers of a source: the source itself if it is a router, else
\* the routers that own its gateway address when the gateway is in its subnet.
StartRouters(devs, source) ==
    IF source.type = "Router" THEN {source.id}
    ELSE IF /\ source.gateway # EmptyStr
            /\ isSameSubnet(source.ip, source.gateway, source.mask)
    THEN {devs[k].id : k \in {j \in DOMAIN devs : IsGatewayRouter(devs[j], source.gateway)}}
    ELSE {}

\* Router r has a configured interface in the subnet of a target address,
\* under that interface's mask.
RouterServes(devs, r, target) ==
    \E a \in SourceAddresses(getDevice(devs, r)) : \E b \in TargetAddresses(target) :
        a[2] # EmptyStr /\ isSameSubnet(a[1], b, a[2])

Routable(devs, source, target) ==
    \E r \in L3Reach(devs, StartRouters(devs, source)) : RouterServes(devs, r, target)

\* ---------------------------------------------------------------- C15
\* C15: when the checks pass and there is no direct match, testConnectivity
\* succeeds exactly when a start router exists and some router reachable from
\* it through valid hops has a configured interface in the subnet of a target
\* address; when a start router exists and no such router is reachable, the
\* result is NetworkUnreachable.
C15_MultiHop ==
    \A s, t \in HopIds :
        Cabled(devices, s, t) =>
            LET source == getDevice(devices, s)
                target == getDevice(devices, t)
                result == testConnectivity(devices, s, t)
            IN (Addressed(source, target) /\ ~DirectMatch(source, target))
                   => /\ result.success <=> Routable(devices, source, target)
                      /\ (/\ StartRouters(devices, source) # {}
                          /\ ~Routable(devices, source, target))
                             => result = [success |-> FALSE, msg |-> "NetworkUnreachable"]

\* A ping that succeeds through a hop: no direct match, and the start router
\* serves no target address itself.
C15_Witness ==
    \E s, t \in HopIds :
        /\ Cabled(devices, s, t)
        /\ Addressed(getDevice(devices, s), getDevice(devices, t))
        /\ ~DirectMatch(getDevice(devices, s), getDevice(devices, t))
        /\ \A r \in StartRouters(devices, getDevice(devices, s)) :
               ~RouterServes(devices, r, getDevice(devices, t))
        /\ testConnectivity(devices, s, t).success

\* ---------------------------------------------------------------- C16
\* C16: every route getRoute returns for distinct source and target starts
\* with the source, ends with the target, repeats no device, and every two
\* consecutive routers of it are joined by a cable whose two end interfaces
\* carry addresses of one subnet.
ValidRoute(devs, route, s, t) ==
    /\ route[1] = s
    /\ route[Len(route)] = t
    /\ \A i, j \in DOMAIN route : route[i] = route[j] => i = j
    /\ \A i \in 1..(Len(route) - 1) :
           (IsRouter(devs, route[i]) /\ IsRouter(devs, route[i + 1]))
               => L3Hop(devs, route[i], route[i + 1])

C16_RouteIsValid ==
    \A s, t \in HopIds :
        (s # t /\ getRoute(devices, s, t) # NoRoute)
            => ValidRoute(devices, getRoute(devices, s, t), s, t)

\* ---------------------------------------------------------------- C17
\* C17: every call of testConnectivity returns one outcome, success or one
\* of the seven classified failures, and the multi-hop search from any router
\* takes each router from its queue at most once, on every reachable
\* topology, cycles of routers included.
Outcomes ==
    {[success |-> TRUE, msg |-> "Reply"]} \cup
    {[success |-> FALSE, msg |-> m] :
        m \in {"DeviceNotFound", "SelfPingError", "NoPhysicalPath",
                "MissingSourceAddress", "MissingTargetAddress",
                "GatewayUnreachable", "NetworkUnreachable"}}

SearchVisits(devs, r, t) ==
    PathVisits(devs, [queue |-> << <<r>> >>, visited |-> {r}], getDevice(devs, t), <<>>)

C17_TotalAndVisitOnce ==
    /\ \A s, t \in HopIds : testConnectivity(devices, s, t) \in Outcomes
    /\ \A r, t \in HopIds :
           (IsRouter(devices, r) /\ HasDevice(devices, t)) =>
               LET visits == SearchVisits(devices, r, t)
               IN /\ \A i, j \in DOMAIN visits : visits[i] = visits[j] => i = j
                  /\ \A i \in DOMAIN visits : IsRouter(devices, visits[i])

\* A ping from a router whose search exhausts after it has taken two routers
\* from its queue.
C17_Witness ==
    \E s, t \in HopIds :
        /\ Cabled(devices, s, t)
        /\ IsRouter(devices, s)
        /\ Len(SearchVisits(devices, s, t)) = 2
        /\ testConnectivity(devices, s, t).msg = "NetworkUnreachable"

\* ---------------------------------------------------------------- C19
\* C19: testConnectivity and getRoute do not depend on link state: the
\* topology before a link settles and the topology after it, which differ
\* only in the link state of the interfaces of that link, give the same
\* result and the same route for every pair.
WithStatus(devs, st) ==
    [k \in DOMAIN devs |->
        [devs[k] EXCEPT !.interfaces =
            [j \in DOMAIN devs[k].interfaces |->
                [devs[k].interfaces[j] EXCEPT !.status = st]]]]

\* The step in which a link settles.
Settles == Len(timers') < Len(timers)

C19_LinkStateIndependent ==
    [][Settles =>
          /\ WithStatus(devices', "up") = WithStatus(devices, "up")
          /\ \A s, t \in HopIds :
                 /\ testConnectivity(devices', s, t) = testConnectivity(devices, s, t)
                 /\ getRoute(devices', s, t) = getRoute(devices, s, t)]_vars

\* A ping that succeeds through a hop over a link that is still Down.
C19_Witness ==
    \E s, t \in HopIds :
        /\ Cabled(devices, s, t)
        /\ ~DirectMatch(getDevice(devices, s), getDevice(devices, t))
        /\ \A r \in StartRouters(devices, getDevice(devices, s)) :
               ~RouterServes(devices, r, getDevice(devices, t))
        /\ testConnectivity(devices, s, t).success
        /\ timers # <<>>
        /\ \E a, b \in HopIds :
               /\ L3Hop(devices, a, b)
               /\ \E k \in DOMAIN getDevice(devices, a).interfaces :
                      /\ getDevice(devices, a).interfaces[k].connectedDeviceId = b
                      /\ getDevice(devices, a).interfaces[k].status = "down"


ProjectIds == 1..ProjectMaxDevices

Topology(devs) ==
    [k \in DOMAIN devs |->
        [id |-> devs[k].id, type |-> devs[k].type, name |-> devs[k].name,
         ip |-> devs[k].ip, mask |-> devs[k].mask, gateway |-> devs[k].gateway,
         connections |-> devs[k].connections,
         interfaces |->
            [j \in DOMAIN devs[k].interfaces |->
                [name |-> devs[k].interfaces[j].name,
                 ip |-> devs[k].interfaces[j].ip,
                 mask |-> devs[k].interfaces[j].mask,
                 connectedDeviceId |-> devs[k].interfaces[j].connectedDeviceId,
                 connectedInterfaceName |-> devs[k].interfaces[j].connectedInterfaceName]]]]

C20_SaveLoadRoundTrip ==
    \A loaded \in {loadProject(saveProject(devices, nextId))} :
        /\ Topology(loaded.devices) = Topology(devices)
        /\ \A s, t \in ProjectIds :
               /\ testConnectivity(loaded.devices, s, t) = testConnectivity(devices, s, t)
               /\ getRoute(loaded.devices, s, t) = getRoute(devices, s, t)

\* A topology that has been loaded from its file while a link was settling
\* (the callback of that link holds no interface of the loaded devices), with
\* two cabled, addressed devices whose ping succeeds.
C20_Witness ==
    /\ \E k \in DOMAIN timers : timers[k] = {}
    /\ \E s, t \in ProjectIds :
           /\ Cabled(devices, s, t)
           /\ testConnectivity(devices, s, t).success
           /\ testConnectivity(loadProject(saveProject(devices, nextId)).devices, s, t).success


\* ------------------------------------------------- address vocabulary
\* The non-empty strings the address and mask fields of the interfaces hold.
StoredStrings(devs) ==
    UNION {UNION {{devs[k].interfaces[i].ip, devs[k].interfaces[i].mask} :
                      i \in DOMAIN devs[k].interfaces} : k \in DOMAIN devs}
        \ {EmptyStr}

\* Exactly four octets, each a number in [0,255].
WellFormed(a) == Len(a) = 4 /\ \A k \in DOMAIN a : a[k] \in 0..255

\* A 32-bit unsigned value, kept as its two 16-bit halves.
IsUint32(v) == v[1] \in 0..65535 /\ v[2] \in 0..65535

\* a*2^24 + b*2^16 + c*2^8 + d as its two 16-bit halves.
Packed(a) == << a[1] * 256 + a[2], a[3] * 256 + a[4] >>

\* ---------------------------------------------------------------- C21
\* C21: ipToLong returns no number for a stored address or mask that is not
\* exactly four octets each in [0,255].
C21_MalformedRejected ==
    \A a \in StoredStrings(devices) : ~WellFormed(a) => ~IsUint32(ipToLong(a))

\* ---------------------------------------------------------------- C24
\* C24: for every stored address of four octets each in [0,255], ipToLong
\* is a*2^24 + b*2^16 + c*2^8 + d, a value in [0, 2^32), and the formatter of
\* the routing table gives the four octets back.
C24_PackAndFormat ==
    \A a \in StoredStrings(devices) :
        WellFormed(a) =>
            /\ ipToLong(a) = Packed(a)
            /\ IsUint32(ipToLong(a))
            /\ netAddress(ipToLong(a)) = a

\* An interface holds a well-formed address whose first octet is 128 or more
\* and the formatter returns it.
C24_Witness ==
    \E a \in StoredStrings(devices) :
        WellFormed(a) /\ a[1] >= 128 /\ a[2] # a[4] /\ netAddress(ipToLong(a)) = a

\* ---------------------------------------------------------------- C25
\* C25: no interface of a switch carries an address or a mask.
C25_SwitchUnaddressed ==
    \A k \in DOMAIN devices :
        devices[k].type = "Switch" =>
            \A i \in DOMAIN devices[k].interfaces :
                /\ devices[k].interfaces[i].ip = EmptyStr
                /\ devices[k].interfaces[i].mask = EmptyStr

\* ---------------------------------------------------------------- C29
\* C29: a save that the duplicate-address check rejects leaves the edited
\* device as it was, whatever name and address the form holds.
C29_RejectedSaveKeepsDevice ==
    \A k \in DOMAIN devices : \A a \in AddressInputs :
        \A name \in {devices[k].name, EditedName} :
            LET form == EditedForm(devices[k], name, 1, a[1], a[2], EmptyStr) IN
            DuplicateIP(devices, devices[k], form) =>
                getDevice(saveConfig(devices, devices[k].id, form), devices[k].id)
                    = devices[k]

\* --------------------------------------------------- graph vocabulary
GraphIds == 1..GraphMaxDevices

\* The number of hops of a shortest path from the set S to t in the
\* device-adjacency graph, t being reachable from S.
RECURSIVE Distance(_, _, _)
Distance(devs, S, t) ==
    IF t \in S THEN 0
    ELSE 1 + Distance(devs, S \cup UNION {Adjacent(devs, x) : x \in S}, t)

\* ---------------------------------------------------------------- C22
\* C22: getPhysicalPath returns a path exactly when checkPhysicalPath is
\* true, and the path starts at the start device, ends at the end device,
\* steps only along adjacency entries and has the fewest hops possible.
C22_ShortestPhysicalPath ==
    \A s, t \in GraphIds :
        LET path == getPhysicalPath(devices, s, t) IN
        /\ (path # NoPath) <=> checkPhysicalPath(devices, s, t)
        /\ path # NoPath =>
               /\ path[1] = s
               /\ path[Len(path)] = t
               /\ \A k \in 1..(Len(path) - 1) : path[k + 1] \in Adjacent(devices, path[k])
               /\ Len(path) - 1 = Distance(devices, {s}, t)

\* Three devices cabled in a ring: the path between two of them is the one
\* cable although a path of two hops exists as well.
C22_Witness ==
    /\ \A s, t \in GraphIds : s # t => t \in Adjacent(devices, s)
    /\ \E s, t \in GraphIds : s # t /\ Len(getPhysicalPath(devices, s, t)) = 2

\* ---------------------------------------------------------------- C23
\* C23: device e is in the adjacency list of device d exactly when some
\* interface of d has its peer on e, and no id is in the list twice.
C23_AdjacencyIsProjection ==
    \A k \in DOMAIN devices :
        LET d == devices[k]
            peers == {d.interfaces[i].connectedDeviceId : i \in DOMAIN d.interfaces}
                         \ {Null}
            listed == {d.connections[i] : i \in DOMAIN d.connections}
        IN /\ listed = peers
           /\ Cardinality(listed) = Len(d.connections)

\* ---------------------------------------------------------------- C27
\* C27: the peer device id of an interface is null exactly when its peer
\* interface name is null.
C27_PeerFullySetOrUnset ==
    \A k \in DOMAIN devices : \A i \in DOMAIN devices[k].interfaces :
        (devices[k].interfaces[i].connectedDeviceId = Null)
            <=> (devices[k].interfaces[i].connectedInterfaceName = NullName)

\* ---------------------------------------------------------------- C28
\* C28: disconnectLink called on a connected interface and its recorded peer
\* leaves every other interface as it was, and leaves the two devices in each
\* other's adjacency list while another cable joins them.
C28_DisconnectFrame ==
    \A a \in DOMAIN devices : \A i \in DOMAIN devices[a].interfaces :
        LET A == devices[a]
            ifA == A.interfaces[i]
            after == disconnectLink(devices, A.id, ifA.name,
                                    ifA.connectedDeviceId, ifA.connectedInterfaceName)
        IN (ifA.name \in GraphNames /\ ifA.connectedDeviceId # Null) =>
               /\ \A k \in DOMAIN devices : \A j \in DOMAIN devices[k].interfaces :
                      (~(k = a /\ j = i)
                         /\ ~(devices[k].id = ifA.connectedDeviceId
                                /\ devices[k].interfaces[j].name = ifA.connectedInterfaceName))
                          => after[k].interfaces[j] = devices[k].interfaces[j]
               /\ (\E j \in DOMAIN A.interfaces :
                       j # i /\ A.interfaces[j].connectedDeviceId = ifA.connectedDeviceId)
                      => ifA.connectedDeviceId \in Adjacent(after, A.id)

\* ---------------------------------------------------------------- C26
\* C26: the interfaces at the two ends of a connected link, each recording
\* the other as its peer, have the same status.
C26_EndsAgree ==
    \A k \in DOMAIN devices : \A j \in DOMAIN devices[k].interfaces :
        LET a == devices[k].interfaces[j] IN
        (/\ a.connectedDeviceId # Null
         /\ HasDevice(devices, a.connectedDeviceId)
         /\ HasInterface(getDevice(devices, a.connectedDeviceId), a.connectedInterfaceName))
            => LET b == getInterface(getDevice(devices, a.connectedDeviceId),
                                     a.connectedInterfaceName)
               IN (b.connectedDeviceId = devices[k].id /\ b.connectedInterfaceName = a.name)
                      => a.status = b.status

\* ---------------------------------------------------------------- C30
\* C30: when a ping from a host succeeds through its gateway, the router that
\* owns the gateway address and every router of the route are reachable from
\* the host in the device-adjacency graph.
C30_ChainPhysicallyReachable ==
    \A s, t \in HopIds :
        (/\ HasDevice(devices, s) /\ HasDevice(devices, t)
         /\ getDevice(devices, s).type # "Router"
         /\ ~DirectMatch(getDevice(devices, s), getDevice(devices, t))
         /\ testConnectivity(devices, s, t).success)
            => /\ PathExists(devices, s,
                      GatewayRouter(devices, getDevice(devices, s).gateway).id)
               /\ LET route == getRoute(devices, s, t) IN
                  \A k \in DOMAIN route :
                      IsRouter(devices, route[k]) => PathExists(devices, s, route[k])

====
